---- MODULE Spec2Model ----
(***************************************************************************)
(* The account-lifecycle controller of src/src/components/Auth.jsx (the    *)
(* Auth component: login, signup, verification, password reset against a   *)
(* Cognito user pool) as a state machine.                                  *)
(*                                                                         *)
(* Strings the code inspects character by character (draft fields) are     *)
(* sequences of one-character strings; messages the code only stores and   *)
(* shows are TLA+ strings.  One action is one event handler or one         *)
(* asynchronous callback, run to completion together with the              *)
(* clear-messages effect that React runs after the commit when             *)
(* uiState.currentView changed.  A call record keeps the username the      *)
(* handler's closure held when it issued the call; the other arguments     *)
(* (password, code, attributes) are never read back by any handler and are *)
(* not recorded.                                                           *)
(*                                                                         *)
(* The host, src/src/AppContent.jsx, owns user, isLoading, sessionError:   *)
(* it checks the stored session at start-up, shows Auth while user is null *)
(* and StorytellerApp otherwise, whose authenticatedFetch looks the        *)
(* session up before every backend request.                                *)
(***************************************************************************)
EXTENDS Naturals, Integers, Sequences, FiniteSets, Bags, TLC

\* ------------------------------------------------------------------ bounds
\* Most resendConfirmationCode calls in flight at once (handleResendCode does
\* not set isLoading, so the code itself puts no limit on them).
MaxResends == 1
\* Most pending setTimeout callbacks at once.
MaxTimers == 1
\* Longest draft typed character by character, per kind of field.
MaxUsernameLen == 4
MaxEmailLen == 5
MaxPasswordLen == 9
MaxCodeLen == 2
\* successful logins of one run of the host
MaxLogins == 2
\* authenticatedFetch calls of one run of the host
MaxFetches == 2

\* --------------------------------------------------------- character data
Lower == {"a","b","c","d","e","f","g","h","i","j","k","l","m",
          "n","o","p","q","r","s","t","u","v","w","x","y","z"}
Upper == {"A","B","C","D","E","F","G","H","I","J","K","L","M",
          "N","O","P","Q","R","S","T","U","V","W","X","Y","Z"}
Digit == {"0","1","2","3","4","5","6","7","8","9"}
\* The punctuation class [@$!%*?&] of PASSWORD_REGEX.
Special == {"@","$","!","%","*","?","&"}
\* \s of the regular expressions and of String.prototype.trim, as far as the
\* modelled inputs go.
Whitespace == {" "}

Empty == << >>

\* String.prototype.trim
RECURSIVE TrimLeft(_)
TrimLeft(s) ==
    IF s # Empty /\ Head(s) \in Whitespace THEN TrimLeft(Tail(s)) ELSE s

RECURSIVE TrimRight(_)
TrimRight(s) ==
    IF s # Empty /\ s[Len(s)] \in Whitespace
    THEN TrimRight(SubSeq(s, 1, Len(s) - 1))
    ELSE s

Trim(s) == TrimRight(TrimLeft(s))

\* -------------------------------------------------------------- validators
\* {8,} of PASSWORD_REGEX
MinPasswordLen == 8
\* username.length >= 3
MinUsernameLen == 3

\* The email test without its whitespace exclusion.
validateEmailAllowsSpaces(email) ==
    \E i \in 2..Len(email) :
        /\ email[i] = "@"
        /\ \A k \in 1..Len(email) : email[k] = "@" => k = i
        /\ \E j \in (i + 2)..(Len(email) - 1) : email[j] = "."

\* /^[^\s@]+@[^\s@]+\.[^\s@]+$/
validateEmail(email) ==
    /\ \A k \in 1..Len(email) : email[k] \notin Whitespace
    /\ \E i \in 2..Len(email) :
          /\ email[i] = "@"
          /\ \A k \in 1..Len(email) : email[k] = "@" => k = i
          /\ \E j \in (i + 2)..(Len(email) - 1) : email[j] = "."

\* /^(?=.*[a-z])(?=.*[A-Z])(?=.*\d)(?=.*[@$!%*?&])[A-Za-z\d@$!%*?&]{8,}$/
validatePassword(password) ==
    /\ \E k \in 1..Len(password) : password[k] \in Lower
    /\ \E k \in 1..Len(password) : password[k] \in Upper
    /\ \E k \in 1..Len(password) : password[k] \in Digit
    /\ \E k \in 1..Len(password) : password[k] \in Special
    /\ \A k \in 1..Len(password) :
          password[k] \in Lower \cup Upper \cup Digit \cup Special
    /\ Len(password) >= MinPasswordLen

\* username.length >= 3 && /^[a-zA-Z0-9_]+$/.test(username)
validateUsername(username) ==
    /\ Len(username) >= MinUsernameLen
    /\ \A k \in 1..Len(username) :
          username[k] \in Lower \cup Upper \cup Digit \cup {"_"}


\* ------------------------------------------------------------ draft values
\* What the user may type into each field (handleInputChange's e.target.value).
sBlank == <<" ">>
sAb == <<"a","b">>
sAnn == <<"a","n","n","_","0","1">>
sWeak == <<"W","e","a","k","1">>
sNoSpecial == <<"S","t","r","o","n","g","1","2">>
sNoDigit == <<"S","t","r","o","n","g","!","!">>
sNoUpper == <<"s","t","r","o","n","g","1","!">>
sNoLower == <<"S","T","R","O","N","G","1","!">>
sShort == <<"S","t","r","0","n","g","!">>
sHash == <<"S","t","r","o","n","g","1","!","#">>
sStrong == <<"S","t","r","o","n","g","1","!">>
sMail == <<"A","n","n","@","x",".","i","o">>
sCode == <<"1","2","3","4","5","6">>

Fields == {"username", "password", "email", "verificationCode",
           "resetCode", "newPassword", "confirmPassword"}

Values(field) ==
    CASE field = "username" -> {Empty, sBlank, sAb, sAnn}
      [] field = "password" -> {Empty, sStrong}
      [] field = "email" -> {Empty, sMail}
      [] field = "verificationCode" -> {Empty, sCode}
      [] field = "resetCode" -> {Empty, sCode}
      [] field = "newPassword" -> {Empty, sStrong}
      [] field = "confirmPassword" -> {Empty, sStrong}

\* --------------------------------------------------------------- messages
msgUsernameRequired == "Username is required"
msgPasswordRequired == "Password is required"
msgUsernameShape == "Username must be at least 3 characters and contain only letters, numbers, and underscores"
msgEmailInvalid == "Please enter a valid email address"
msgPasswordPolicy == "Password must be at least 8 characters with uppercase, lowercase, number, and special character"
msgMismatch == "Passwords do not match"
msgCodeRequired == "Verification code is required"
msgResetCodeRequired == "Reset code is required"
msgUnexpected == "An unexpected error occurred. Please try again."
msgLoginOk == "Login successful!"
msgPleaseVerify == "Please verify your account. A new verification code will be sent."
msgLoginFailed == "Login failed. Please try again."
msgSignupFailed == "Signup failed. Please try again."
msgAccountCreated == "Account created successfully! Please check your email for verification code."
msgVerifyFailed == "Verification failed. Please try again."
msgVerified == "Account verified successfully! You can now log in."
msgResendNeedsUser == "Username is required to resend code"
msgResendFailed == "Failed to resend code. Please try again."
msgResent == "A new verification code has been sent to your email."
msgResetSendFailed == "Failed to send reset code. Please try again."
msgResetSent == "Reset code sent to your email."
msgResetOk == "Password reset successfully! You can now log in."
msgResetFailed == "Password reset failed. Please try again."

\* The failure descriptors the identity authority may hand to a callback
\* (err.code, err.message); code "" stands for an absent code, message ""
\* for an absent or empty message.  Four descriptors carry a code and its
\* usual message, two carry a message without its code.
codeUnconfirmed == "UserNotConfirmedException"
\* Codes the handlers have no branch for: wrong credentials, a server fault.
codeNotAuthorized == "NotAuthorizedException"
codeInternal == "InternalErrorException"
\* The code the authority reports when signUp names an existing account.
codeExists == "UsernameExistsException"
Failures ==
    { [code |-> codeUnconfirmed, message |-> "User is not confirmed."],
      [code |-> codeExists, message |-> "User already exists"],
      [code |-> codeNotAuthorized, message |-> "Incorrect username or password."],
      [code |-> codeInternal, message |-> "Internal error."],
      [code |-> "", message |-> "User is not confirmed."],
      [code |-> "", message |-> "User already exists"],
      [code |-> "", message |-> ""] }

\* The err a callback (err, result) gets on success, and what a call may
\* resolve to.
null == [code |-> "null", message |-> ""]
Results == Failures \cup {null}

\* The fallback shown whatever the failure says.
MessageOrFallbackOnly(err, fallback) == fallback

\* err.message || fallback
MessageOr(err, fallback) == IF err.message # "" THEN err.message ELSE fallback

\* ------------------------------------------------------------------ state
VARIABLES
    formData,        \* useState formData
    uiState,         \* useState uiState: currentView, isLoading, resetCodeSent
    errors,          \* useState errors: field -> message ("" when absent)
    authError,       \* useState authError
    successMessage,  \* useState successMessage
    calls,           \* gateway calls in flight (a bag)
    timers,          \* pending setTimeout callbacks, in creation order
    user,            \* the host's user: << >> is null, <<h>> a session handle
    authenticated,   \* history: the Username of every authenticateUser onSuccess
    handoffs,        \* history: the handle of every onLoginSuccess invocation
    lastOp,          \* history: the handler or callback that ran last
    effectCleared,   \* history: the clear-messages effect of the last step
                     \* discarded a message that was showing
    isLoading,       \* AppContent's useState isLoading (the start-up check)
    sessionError,    \* AppContent's useState sessionError
    fetchLog         \* history: the outcome of every authenticatedFetch whose
                     \* session lookup returned

vars == <<formData, uiState, errors, authError, successMessage,
          calls, timers, user, authenticated, handoffs, lastOp, effectCleared,
          isLoading, sessionError, fetchLog>>

\* AppContent's state other than user, and StorytellerApp's request log.
hostVars == <<isLoading, sessionError, fetchLog>>

NoErrors == [f \in Fields |-> ""]

\* The spec's flow mode, from currentView and resetCodeSent
\* (Auth.jsx 781-784 and 665).
ModeOf(ui) ==
    CASE ui.currentView = "login" -> "login"
      [] ui.currentView = "signup" -> "signup"
      [] ui.currentView = "verification" -> "verify"
      [] ui.currentView = "forgotPassword" /\ ~ui.resetCodeSent -> "resetRequest"
      [] ui.currentView = "forgotPassword" /\ ui.resetCodeSent -> "resetConfirm"

Mode == ModeOf(uiState)

\* The render without its isLoading branch.
MountedWhileLoading == user = << >>

\* AppContent renders Auth exactly when its start-up check has finished and
\* its user is null.
Mounted == ~isLoading /\ user = << >>

Call(op, username) == [op |-> op, user |-> username]
\* The Username the CognitoUser of a call was built with.
CallUsername(c) == Trim(c.user)
InFlight == BagToSet(calls)
Resends == {c \in InFlight : c.op = "resendConfirmationCode"}
NumResends == BagCardinality([c \in Resends |-> calls[c]])
Issue(c) == calls (+) SetToBag({c})
Complete(c) == calls (-) SetToBag({c})

Timer(kind, username) == [kind |-> kind, user |-> username]
\* setTimeout delays: 500 for the login hand-off, 2000 for the returns to login.
Delay(kind) == IF kind = "handoff" THEN 500 ELSE 2000
\* Timer i is due before every pending timer created earlier only if its
\* delay is shorter.
CanFire(i) == \A j \in 1..(i - 1) : Delay(timers[j].kind) > Delay(timers[i].kind)
Without(seq, i) == SubSeq(seq, 1, i - 1) \o SubSeq(seq, i + 1, Len(seq))

Init ==
    /\ formData = [f \in Fields |-> Empty]
    /\ uiState = [currentView |-> "login", isLoading |-> FALSE, resetCodeSent |-> FALSE]
    /\ errors = NoErrors
    /\ authError = ""
    /\ successMessage = ""
    /\ calls = EmptyBag
    /\ timers = << >>
    /\ user = << >>
    /\ isLoading = FALSE
    /\ sessionError = ""
    /\ fetchLog = << >>
    /\ authenticated = << >>
    /\ handoffs = << >>
    /\ lastOp = "mount"
    /\ effectCleared = FALSE

\* ------------------------------------------------------- effects, helpers
Status(er, ae, sm) == [errors |-> er, authError |-> ae, successMessage |-> sm]

\* The effect without its setErrors({}) line.
ClearMessagesEffectKeepsErrors(oldView, newView, st) ==
    IF newView # oldView THEN Status(st.errors, "", "") ELSE st

\* useEffect(..., [uiState.currentView]): after a commit that changed
\* currentView, clear authError, successMessage and errors.
ClearMessagesEffect(oldView, newView, st) ==
    IF newView # oldView THEN Status(NoErrors, "", "") ELSE st

\* One batch of state updates of a mounted Auth, then the effect.  The
\* setters of an unmounted component change nothing.
Commit(fd, ui, st) ==
    IF Mounted
    THEN LET after == ClearMessagesEffect(uiState.currentView, ui.currentView, st)
         IN /\ formData' = fd
            /\ uiState' = ui
            /\ errors' = after.errors
            /\ authError' = after.authError
            /\ successMessage' = after.successMessage
            /\ effectCleared' = (after # st)
    ELSE /\ effectCleared' = FALSE
         /\ UNCHANGED <<formData, uiState, errors, authError, successMessage>>

Now == Status(errors, authError, successMessage)

\* validateForm without the login case's password test.
validateFormNoPasswordTest(view, fd) ==
    [f \in Fields |->
        CASE view = "login" /\ f = "username" /\ Trim(fd.username) = Empty
                -> msgUsernameRequired
          [] view = "signup" /\ f = "username" /\ ~validateUsername(fd.username)
                -> msgUsernameShape
          [] view = "signup" /\ f = "email" /\ ~validateEmail(fd.email)
                -> msgEmailInvalid
          [] view = "signup" /\ f = "password" /\ ~validatePassword(fd.password)
                -> msgPasswordPolicy
          [] view = "signup" /\ f = "confirmPassword" /\ fd.password # fd.confirmPassword
                -> msgMismatch
          [] view = "verification" /\ f = "verificationCode"
                /\ Trim(fd.verificationCode) = Empty
                -> msgCodeRequired
          [] view = "resetPassword" /\ f = "resetCode" /\ Trim(fd.resetCode) = Empty
                -> msgResetCodeRequired
          [] view = "resetPassword" /\ f = "newPassword" /\ ~validatePassword(fd.newPassword)
                -> msgPasswordPolicy
          [] OTHER -> ""]

\* validateForm without the signup case's password-policy test.
validateFormNoPolicyTest(view, fd) ==
    [f \in Fields |->
        CASE view = "login" /\ f = "username" /\ Trim(fd.username) = Empty
                -> msgUsernameRequired
          [] view = "login" /\ f = "password" /\ fd.password = Empty
                -> msgPasswordRequired
          [] view = "signup" /\ f = "username" /\ ~validateUsername(fd.username)
                -> msgUsernameShape
          [] view = "signup" /\ f = "email" /\ ~validateEmail(fd.email)
                -> msgEmailInvalid
          [] view = "signup" /\ f = "confirmPassword" /\ fd.password # fd.confirmPassword
                -> msgMismatch
          [] view = "verification" /\ f = "verificationCode"
                /\ Trim(fd.verificationCode) = Empty
                -> msgCodeRequired
          [] view = "resetPassword" /\ f = "resetCode" /\ Trim(fd.resetCode) = Empty
                -> msgResetCodeRequired
          [] view = "resetPassword" /\ f = "newPassword" /\ ~validatePassword(fd.newPassword)
                -> msgPasswordPolicy
          [] OTHER -> ""]

\* validateForm testing presence without trim().
validateFormNoTrim(view, fd) ==
    [f \in Fields |->
        CASE view = "login" /\ f = "username" /\ fd.username = Empty
                -> msgUsernameRequired
          [] view = "login" /\ f = "password" /\ fd.password = Empty
                -> msgPasswordRequired
          [] view = "signup" /\ f = "username" /\ ~validateUsername(fd.username)
                -> msgUsernameShape
          [] view = "signup" /\ f = "email" /\ ~validateEmail(fd.email)
                -> msgEmailInvalid
          [] view = "signup" /\ f = "password" /\ ~validatePassword(fd.password)
                -> msgPasswordPolicy
          [] view = "signup" /\ f = "confirmPassword" /\ fd.password # fd.confirmPassword
                -> msgMismatch
          [] view = "verification" /\ f = "verificationCode"
                /\ fd.verificationCode = Empty
                -> msgCodeRequired
          [] view = "resetPassword" /\ f = "resetCode" /\ fd.resetCode = Empty
                -> msgResetCodeRequired
          [] view = "resetPassword" /\ f = "newPassword" /\ ~validatePassword(fd.newPassword)
                -> msgPasswordPolicy
          [] OTHER -> ""]

\* validateForm(view): the newErrors it builds from formData.
validateForm(view, fd) ==
    [f \in Fields |->
        CASE view = "login" /\ f = "username" /\ Trim(fd.username) = Empty
                -> msgUsernameRequired
          [] view = "login" /\ f = "password" /\ fd.password = Empty
                -> msgPasswordRequired
          [] view = "signup" /\ f = "username" /\ ~validateUsername(fd.username)
                -> msgUsernameShape
          [] view = "signup" /\ f = "email" /\ ~validateEmail(fd.email)
                -> msgEmailInvalid
          [] view = "signup" /\ f = "password" /\ ~validatePassword(fd.password)
                -> msgPasswordPolicy
          [] view = "signup" /\ f = "confirmPassword" /\ fd.password # fd.confirmPassword
                -> msgMismatch
          [] view = "verification" /\ f = "verificationCode"
                /\ Trim(fd.verificationCode) = Empty
                -> msgCodeRequired
          [] view = "resetPassword" /\ f = "resetCode" /\ Trim(fd.resetCode) = Empty
                -> msgResetCodeRequired
          [] view = "resetPassword" /\ f = "newPassword" /\ ~validatePassword(fd.newPassword)
                -> msgPasswordPolicy
          [] OTHER -> ""]

\* Object.keys(newErrors).length === 0
FormValid(newErrors) == \A f \in Fields : newErrors[f] = ""

\* The buttons without their disabled attribute.
EnabledWhileLoading == Mounted

\* disabled={uiState.isLoading} on every submit button, link and the resend button
Enabled == Mounted /\ ~uiState.isLoading

\* The inputs each view renders with onChange={handleInputChange}.
Editable(ui) ==
    CASE ModeOf(ui) = "login" -> {"username", "password"}
      [] ModeOf(ui) = "signup" -> {"username", "email", "password", "confirmPassword"}
      [] ModeOf(ui) = "verify" -> {"verificationCode"}
      [] ModeOf(ui) = "resetRequest" -> {"username"}
      [] ModeOf(ui) = "resetConfirm" -> {"resetCode", "newPassword"}

\* ---------------------------------------------------------------- actions
\* handleInputChange clearing every field's error instead of the edited one's.
HandleInputChangeClearsErrors(name, value) ==
    /\ Mounted
    /\ name \in Editable(uiState)
    /\ formData[name] # value
    /\ formData' = [formData EXCEPT ![name] = value]
    /\ errors' = NoErrors
    /\ authError' = ""
    /\ lastOp' = "handleInputChange"
    /\ effectCleared' = FALSE
    /\ UNCHANGED <<uiState, successMessage, calls, timers, user, hostVars, authenticated, handoffs>>

\* handleInputChange
HandleInputChange(name, value) ==
    /\ Mounted
    /\ name \in Editable(uiState)
    /\ formData[name] # value
    /\ formData' = [formData EXCEPT ![name] = value]
    /\ errors' = [errors EXCEPT ![name] = ""]
    /\ authError' = ""
    /\ lastOp' = "handleInputChange"
    /\ effectCleared' = FALSE
    /\ UNCHANGED <<uiState, successMessage, calls, timers, user, hostVars, authenticated, handoffs>>


\* handleResendCode without its presence test.
handleResendCodeNoGuard(username) ==
    [authError |-> "",
     issued |-> SetToBag({Call("resendConfirmationCode", username)})]

\* handleResendCode, run with the formData.username its closure holds: the
\* authError it sets and the calls it issues.
handleResendCode(username) ==
    IF Trim(username) = Empty
    THEN [authError |-> msgResendNeedsUser, issued |-> EmptyBag]
    ELSE [authError |-> "",
          issued |-> SetToBag({Call("resendConfirmationCode", username)})]

\* The three ways a submit handler ends: validation fails (return), the try
\* block throws before the call is issued, or the call is issued.
SubmitRejected(newErrors, op) ==
    /\ errors' = newErrors
    /\ lastOp' = op
    /\ effectCleared' = FALSE
    /\ UNCHANGED <<formData, uiState, authError, successMessage,
                   calls, timers, user, hostVars, authenticated, handoffs>>

\* The catch block without its setLoading(false).
SubmitThrewKeepsLoading(newErrors, op) ==
    /\ errors' = newErrors
    /\ uiState' = [uiState EXCEPT !.isLoading = TRUE]
    /\ authError' = msgUnexpected
    /\ lastOp' = op
    /\ effectCleared' = FALSE
    /\ UNCHANGED <<formData, successMessage, calls, timers, user, hostVars, authenticated, handoffs>>

SubmitThrew(newErrors, op) ==
    /\ errors' = newErrors
    /\ uiState' = [uiState EXCEPT !.isLoading = FALSE]
    /\ authError' = msgUnexpected
    /\ lastOp' = op
    /\ effectCleared' = FALSE
    /\ UNCHANGED <<formData, successMessage, calls, timers, user, hostVars, authenticated, handoffs>>

SubmitIssued(newErrors, op, call) ==
    /\ errors' = newErrors
    /\ uiState' = [uiState EXCEPT !.isLoading = TRUE]
    /\ authError' = ""
    /\ calls' = Issue(call)
    /\ lastOp' = op
    /\ effectCleared' = FALSE
    /\ UNCHANGED <<formData, successMessage, timers, user, hostVars, authenticated, handoffs>>

Submit(valid, newErrors, op, call, threw) ==
    IF ~valid THEN SubmitRejected(newErrors, op)
    ELSE IF threw THEN SubmitThrew(newErrors, op)
    ELSE SubmitIssued(newErrors, op, call)

\* handleLogin up to cognitoUser.authenticateUser(...)
HandleLogin(threw) ==
    /\ Enabled
    /\ uiState.currentView = "login"
    /\ Submit(FormValid(validateForm("login", formData)),
              validateForm("login", formData), "handleLogin",
              Call("authenticateUser", formData.username), threw)

\* onSuccess ending the loading state, as every other callback does.
LoginOnSuccessStopsLoading(c) ==
    /\ c \in InFlight /\ c.op = "authenticateUser"
    /\ Len(timers) < MaxTimers
    /\ calls' = Complete(c)
    /\ Commit(formData, [uiState EXCEPT !.isLoading = FALSE],
              Status(errors, authError, msgLoginOk))
    /\ timers' = Append(timers, Timer("handoff", CallUsername(c)))
    /\ authenticated' = Append(authenticated, CallUsername(c))
    /\ lastOp' = "login.onSuccess"
    /\ UNCHANGED <<user, hostVars, handoffs>>

\* authenticateUser onSuccess
LoginOnSuccess(c) ==
    /\ c \in InFlight /\ c.op = "authenticateUser"
    /\ Len(timers) < MaxTimers
    /\ calls' = Complete(c)
    /\ Commit(formData, uiState, Status(errors, authError, msgLoginOk))
    /\ timers' = Append(timers, Timer("handoff", CallUsername(c)))
    /\ authenticated' = Append(authenticated, CallUsername(c))
    /\ lastOp' = "login.onSuccess"
    /\ UNCHANGED <<user, hostVars, handoffs>>

\* authenticateUser onFailure
LoginOnFailure(c, err) ==
    /\ c \in InFlight /\ c.op = "authenticateUser"
    /\ IF err.code = codeUnconfirmed
       THEN LET resend == handleResendCode(c.user)
            IN /\ NumResends + BagCardinality(resend.issued) <= MaxResends
               /\ Commit(formData,
                         [uiState EXCEPT !.isLoading = FALSE,
                                         !.currentView = "verification"],
                         Status(errors, resend.authError, successMessage))
               /\ calls' = Complete(c) (+) resend.issued
       ELSE /\ Commit(formData, [uiState EXCEPT !.isLoading = FALSE],
                      Status(errors, MessageOr(err, msgLoginFailed), successMessage))
            /\ calls' = Complete(c)
    /\ lastOp' = "login.onFailure"
    /\ UNCHANGED <<timers, user, hostVars, authenticated, handoffs>>

\* setTimeout(() => onLoginSuccess(cognitoUser), 500), then AppContent's
\* handleLoginSuccess: setUser(cognitoUser), setSessionError('')
Handoff(i) ==
    /\ i \in 1..Len(timers) /\ timers[i].kind = "handoff" /\ CanFire(i)
    /\ timers' = Without(timers, i)
    /\ user' = <<timers[i].user>>
    /\ sessionError' = ""
    /\ lastOp' = "onLoginSuccess"
    /\ handoffs' = Append(handoffs, timers[i].user)
    /\ effectCleared' = FALSE
    /\ UNCHANGED <<formData, uiState, errors, authError, successMessage,
                   calls, authenticated, isLoading, fetchLog>>

\* handleSignup up to userPool.signUp(...)
HandleSignup(threw) ==
    /\ Enabled
    /\ uiState.currentView = "signup"
    /\ Submit(FormValid(validateForm("signup", formData)),
              validateForm("signup", formData), "handleSignup",
              Call("signUp", formData.username), threw)

\* the signUp callback
SignupCallback(c, err) ==
    /\ c \in InFlight /\ c.op = "signUp"
    /\ calls' = Complete(c)
    /\ IF err # null
       THEN Commit(formData, [uiState EXCEPT !.isLoading = FALSE],
                   Status(errors, MessageOr(err, msgSignupFailed), successMessage))
       ELSE Commit(formData,
                   [uiState EXCEPT !.isLoading = FALSE, !.currentView = "verification"],
                   Status(errors, authError, msgAccountCreated))
    /\ lastOp' = IF err # null THEN "signUp.failure" ELSE "signUp.success"
    /\ UNCHANGED <<timers, user, hostVars, authenticated, handoffs>>

\* handleVerification up to cognitoUser.confirmRegistration(...)
HandleVerification(threw) ==
    /\ Enabled
    /\ uiState.currentView = "verification"
    /\ Submit(FormValid(validateForm("verification", formData)),
              validateForm("verification", formData), "handleVerification",
              Call("confirmRegistration", formData.username), threw)

\* the confirmRegistration callback
VerificationCallback(c, err) ==
    /\ c \in InFlight /\ c.op = "confirmRegistration"
    /\ calls' = Complete(c)
    /\ IF err # null
       THEN /\ Commit(formData, [uiState EXCEPT !.isLoading = FALSE],
                      Status(errors, MessageOr(err, msgVerifyFailed), successMessage))
            /\ UNCHANGED timers
       ELSE /\ Len(timers) < MaxTimers
            /\ Commit(formData, [uiState EXCEPT !.isLoading = FALSE],
                      Status(errors, authError, msgVerified))
            /\ timers' = Append(timers, Timer("verified", Empty))
    /\ lastOp' = IF err # null THEN "confirmRegistration.failure"
                 ELSE "confirmRegistration.success"
    /\ UNCHANGED <<user, hostVars, authenticated, handoffs>>

\* the setTimeout callback of handleVerification, 2000 ms after the success
VerifiedTimeout(i) ==
    /\ i \in 1..Len(timers) /\ timers[i].kind = "verified" /\ CanFire(i)
    /\ timers' = Without(timers, i)
    /\ Commit([formData EXCEPT !.verificationCode = Empty, !.password = Empty],
              [uiState EXCEPT !.currentView = "login"], Now)
    /\ lastOp' = "verified.timeout"
    /\ UNCHANGED <<calls, user, hostVars, authenticated, handoffs>>

\* the Resend Code button: handleResendCode of the current render
ResendClick ==
    /\ Enabled
    /\ uiState.currentView = "verification"
    /\ LET resend == handleResendCode(formData.username)
       IN /\ NumResends + BagCardinality(resend.issued) <= MaxResends
          /\ authError' = resend.authError
          /\ calls' = calls (+) resend.issued
    /\ lastOp' = "handleResendCode"
    /\ effectCleared' = FALSE
    /\ UNCHANGED <<formData, uiState, errors, successMessage, timers, user, hostVars, authenticated, handoffs>>

\* The resend callback ending the loading state, as the submit callbacks do.
ResendCallbackStopsLoading(c, err) ==
    /\ c \in InFlight /\ c.op = "resendConfirmationCode"
    /\ calls' = Complete(c)
    /\ IF err # null
       THEN Commit(formData, [uiState EXCEPT !.isLoading = FALSE],
                   Status(errors, MessageOr(err, msgResendFailed), successMessage))
       ELSE Commit(formData, [uiState EXCEPT !.isLoading = FALSE],
                   Status(errors, authError, msgResent))
    /\ lastOp' = IF err # null THEN "resend.failure" ELSE "resend.success"
    /\ UNCHANGED <<timers, user, hostVars, authenticated, handoffs>>

\* the resendConfirmationCode callback
ResendCallback(c, err) ==
    /\ c \in InFlight /\ c.op = "resendConfirmationCode"
    /\ calls' = Complete(c)
    /\ IF err # null
       THEN Commit(formData, uiState,
                   Status(errors, MessageOr(err, msgResendFailed), successMessage))
       ELSE Commit(formData, uiState, Status(errors, authError, msgResent))
    /\ lastOp' = IF err # null THEN "resend.failure" ELSE "resend.success"
    /\ UNCHANGED <<timers, user, hostVars, authenticated, handoffs>>

\* handleForgotPasswordRequest up to cognitoUser.forgotPassword(...): its
\* guard is the presence test alone, and it sets errors only when that fails.
HandleForgotPasswordRequest(threw) ==
    /\ Enabled
    /\ Mode = "resetRequest"
    /\ Submit(Trim(formData.username) # Empty,
              IF Trim(formData.username) = Empty
              THEN [NoErrors EXCEPT !.username = msgUsernameRequired]
              ELSE errors,
              "handleForgotPasswordRequest",
              Call("forgotPassword", formData.username), threw)

\* forgotPassword onSuccess / onFailure
ForgotPasswordCallback(c, err) ==
    /\ c \in InFlight /\ c.op = "forgotPassword"
    /\ calls' = Complete(c)
    /\ IF err # null
       THEN Commit(formData, [uiState EXCEPT !.isLoading = FALSE],
                   Status(errors, MessageOr(err, msgResetSendFailed), successMessage))
       ELSE Commit(formData,
                   [uiState EXCEPT !.isLoading = FALSE, !.resetCodeSent = TRUE],
                   Status(errors, authError, msgResetSent))
    /\ lastOp' = IF err # null THEN "forgotPassword.failure" ELSE "forgotPassword.success"
    /\ UNCHANGED <<timers, user, hostVars, authenticated, handoffs>>

\* handleResetPasswordSubmit up to cognitoUser.confirmPassword(...)
HandleResetPasswordSubmit(threw) ==
    /\ Enabled
    /\ Mode = "resetConfirm"
    /\ Submit(FormValid(validateForm("resetPassword", formData)),
              validateForm("resetPassword", formData), "handleResetPasswordSubmit",
              Call("confirmPassword", formData.username), threw)

\* confirmPassword onSuccess / onFailure
ResetPasswordCallback(c, err) ==
    /\ c \in InFlight /\ c.op = "confirmPassword"
    /\ calls' = Complete(c)
    /\ IF err # null
       THEN /\ Commit(formData, [uiState EXCEPT !.isLoading = FALSE],
                      Status(errors, MessageOr(err, msgResetFailed), successMessage))
            /\ UNCHANGED timers
       ELSE /\ Len(timers) < MaxTimers
            /\ Commit(formData, [uiState EXCEPT !.isLoading = FALSE],
                      Status(errors, authError, msgResetOk))
            /\ timers' = Append(timers, Timer("reset", Empty))
    /\ lastOp' = IF err # null THEN "confirmPassword.failure" ELSE "confirmPassword.success"
    /\ UNCHANGED <<user, hostVars, authenticated, handoffs>>

\* the setTimeout callback of handleResetPasswordSubmit, 2000 ms after the success
ResetTimeout(i) ==
    /\ i \in 1..Len(timers) /\ timers[i].kind = "reset" /\ CanFire(i)
    /\ timers' = Without(timers, i)
    /\ Commit([formData EXCEPT !.resetCode = Empty, !.newPassword = Empty,
                               !.password = Empty],
              [uiState EXCEPT !.currentView = "login", !.resetCodeSent = FALSE], Now)
    /\ lastOp' = "reset.timeout"
    /\ UNCHANGED <<calls, user, hostVars, authenticated, handoffs>>

\* The link buttons: the views each view's links lead to, and the
\* additionalState they pass to switchView.
Links(view) ==
    CASE view = "login" -> {"forgotPassword", "signup"}
      [] view = "signup" -> {"login"}
      [] view = "forgotPassword" -> {"login"}
      [] OTHER -> {}

\* switchView(view, additionalState), then the effect
switchView(view) ==
    /\ Enabled
    /\ view \in Links(uiState.currentView)
    /\ Commit(formData,
              IF uiState.currentView = "forgotPassword"
              THEN [uiState EXCEPT !.currentView = view, !.resetCodeSent = FALSE]
              ELSE [uiState EXCEPT !.currentView = view],
              Now)
    /\ lastOp' = "switchView"
    /\ UNCHANGED <<calls, timers, user, hostVars, authenticated, handoffs>>

Views == {"login", "signup", "verification", "forgotPassword"}

Next ==
    \/ \E name \in Fields : \E value \in Values(name) : HandleInputChange(name, value)
    \/ \E threw \in BOOLEAN : HandleLogin(threw)
    \/ \E c \in InFlight : LoginOnSuccess(c)
    \/ \E c \in InFlight : \E err \in Failures : LoginOnFailure(c, err)
    \/ \E i \in 1..Len(timers) : Handoff(i)
    \/ \E threw \in BOOLEAN : HandleSignup(threw)
    \/ \E c \in InFlight : \E err \in Results :
          SignupCallback(c, err)
    \/ \E threw \in BOOLEAN : HandleVerification(threw)
    \/ \E c \in InFlight : \E err \in Results :
          VerificationCallback(c, err)
    \/ \E i \in 1..Len(timers) : VerifiedTimeout(i)
    \/ ResendClick
    \/ \E c \in InFlight : \E err \in Results :
          ResendCallback(c, err)
    \/ \E threw \in BOOLEAN : HandleForgotPasswordRequest(threw)
    \/ \E c \in InFlight : \E err \in Results :
          ForgotPasswordCallback(c, err)
    \/ \E threw \in BOOLEAN : HandleResetPasswordSubmit(threw)
    \/ \E c \in InFlight : \E err \in Results :
          ResetPasswordCallback(c, err)
    \/ \E i \in 1..Len(timers) : ResetTimeout(i)
    \/ \E view \in Views : switchView(view)

Spec == Init /\ [][Next]_vars

\* ------------------------------------------------- the signup form alone
\* The signup form right after the user filled it in: a freshly mounted
\* Auth, switchView('signup'), then one handleInputChange per field.  The
\* passwords typed are one that passes the policy and ones that each break
\* one of its requirements.
SignupPasswords == {sStrong, sWeak, sNoSpecial, sNoDigit, sNoUpper, sNoLower,
                    sShort, sHash}

SignupInit ==
    /\ \E u \in {sAb, sAnn} : \E e \in {Empty, sMail} :
       \E p \in SignupPasswords : \E q \in SignupPasswords \cup {Empty} :
          formData = [[f \in Fields |-> Empty] EXCEPT !.username = u, !.email = e,
                                                    !.password = p,
                                                    !.confirmPassword = q]
    /\ uiState = [currentView |-> "signup", isLoading |-> FALSE, resetCodeSent |-> FALSE]
    /\ errors = NoErrors
    /\ authError = ""
    /\ successMessage = ""
    /\ calls = EmptyBag
    /\ timers = << >>
    /\ user = << >>
    /\ isLoading = FALSE
    /\ sessionError = ""
    /\ fetchLog = << >>
    /\ authenticated = << >>
    /\ handoffs = << >>
    /\ lastOp = "handleInputChange"
    /\ effectCleared = FALSE

\* The form is submitted and the signUp call, if one was issued, completes.
SignupNext ==
    \/ \E threw \in BOOLEAN : HandleSignup(threw)
    \/ \E c \in InFlight : \E err \in Results : SignupCallback(c, err)

SignupSpec == SignupInit /\ [][SignupNext]_vars

\* ------------------------------------------------ typing into the forms
\* One field of a form is typed character by character, the others holding
\* what was entered before, and the form's submit handler validates the
\* draft at any point.
sLower4 == <<"a","a","a","a">>
sUpper4 == <<"A","A","A","A">>

\* The keys typed into each field.
Alphabet(field) ==
    CASE field = "username" -> {"a", "1", "_", "-", " "}
      [] field = "email" -> {"a", "@", ".", " "}
      [] field = "password" -> {"a", "A", "1", "!", "#"}
      [] field \in {"verificationCode", "resetCode"} -> {"1", " "}
      [] OTHER -> {}

MaxTyped(field) ==
    CASE field = "username" -> MaxUsernameLen
      [] field = "email" -> MaxEmailLen
      [] field = "password" -> MaxPasswordLen
      [] OTHER -> MaxCodeLen

\* The fields typed into, per view, and what each holds when typing starts.
Exercises ==
    {<<"login", "username">>, <<"signup", "username">>, <<"signup", "email">>,
     <<"signup", "password">>, <<"verification", "verificationCode">>,
     <<"forgotPassword", "resetCode">>}

Starts(field) == IF field = "password" THEN {sLower4, sUpper4} ELSE {Empty}

NoDraft == [f \in Fields |-> Empty]
SignupDraft == [NoDraft EXCEPT !.username = sAnn, !.email = sMail,
                               !.password = sStrong, !.confirmPassword = sStrong]

\* What the other fields hold: nothing, or values entered on the way to
\* the view (the signup draft is still there in the verification view, the
\* username in the reset form).
Baselines(view) ==
    CASE view = "login" -> {NoDraft, [NoDraft EXCEPT !.password = sStrong]}
      [] view = "signup" -> {NoDraft, SignupDraft}
      [] view = "verification" -> {SignupDraft}
      [] view = "forgotPassword" ->
            {[NoDraft EXCEPT !.username = sAnn],
             [NoDraft EXCEPT !.username = sAnn, !.newPassword = sStrong]}

TypingInit ==
    /\ \E x \in Exercises : \E b \in Baselines(x[1]) : \E start \in Starts(x[2]) :
          /\ formData = [b EXCEPT ![x[2]] = start]
          /\ uiState = [currentView |-> x[1], isLoading |-> FALSE,
                        resetCodeSent |-> (x[1] = "forgotPassword")]
          /\ successMessage = IF x[1] = "forgotPassword" THEN msgResetSent ELSE ""
    /\ errors = NoErrors
    /\ authError = ""
    /\ calls = EmptyBag
    /\ timers = << >>
    /\ user = << >>
    /\ isLoading = FALSE
    /\ sessionError = ""
    /\ fetchLog = << >>
    /\ authenticated = << >>
    /\ handoffs = << >>
    /\ lastOp = "handleInputChange"
    /\ effectCleared = FALSE

\* One more key into the field being typed: handleInputChange with the
\* field's value extended by the key.
TypeChar(field, ch) ==
    /\ <<uiState.currentView, field>> \in Exercises
    /\ Len(formData[field]) < MaxTyped(field)
    /\ \E start \in Starts(field) :
          /\ Len(start) <= Len(formData[field])
          /\ SubSeq(formData[field], 1, Len(start)) = start
    /\ \E b \in Baselines(uiState.currentView) :
          \A g \in Fields \ {field} : formData[g] = b[g]
    /\ HandleInputChange(field, Append(formData[field], ch))

TypingNext ==
    \/ \E field \in Fields : \E ch \in Alphabet(field) : TypeChar(field, ch)
    \/ \E threw \in BOOLEAN : HandleLogin(threw)
    \/ \E threw \in BOOLEAN : HandleSignup(threw)
    \/ \E threw \in BOOLEAN : HandleVerification(threw)
    \/ \E threw \in BOOLEAN : HandleResetPasswordSubmit(threw)

TypingSpec == TypingInit /\ [][TypingNext]_vars

\* ------------------------------------------- the host and its requests
msgSessionExpired == "Session expired. Please log in again."
msgSessionInvalid == "Session invalid, please log out and log back in."

\* What getSession hands to its callback: an error, a session whose
\* isValid() is false, or a valid session.
Sessions == {"error", "invalid", "valid"}
\* What userPool.getCurrentUser() finds in storage at start-up.
StoredUsers == {<< >>, <<sAnn>>}
\* session.getIdToken().getJwtToken() of the valid session of user h
Token(h) == <<"jwt">> \o h

\* The state of an Auth instance right after construction.
InitialAuth ==
    /\ formData = [f \in Fields |-> Empty]
    /\ uiState = [currentView |-> "login", isLoading |-> FALSE, resetCodeSent |-> FALSE]
    /\ errors = NoErrors
    /\ authError = ""
    /\ successMessage = ""

\* AppContent right after construction: nothing is rendered but the spinner.
HostInit ==
    /\ InitialAuth
    /\ calls = EmptyBag
    /\ timers = << >>
    /\ user = << >>
    /\ isLoading = TRUE
    /\ sessionError = ""
    /\ fetchLog = << >>
    /\ authenticated = << >>
    /\ handoffs = << >>
    /\ lastOp = "AppContent"
    /\ effectCleared = FALSE

authVars == <<formData, uiState, errors, authError, successMessage, timers, effectCleared>>

\* The session lookups of the host and of StorytellerApp among the calls.
HostOps == {"getSession", "authenticatedFetch"}
HostCalls(b) == [c \in {d \in BagToSet(b) : d.op \in HostOps} |-> b[c]]
Lookups == {c \in InFlight : c.op = "authenticatedFetch"}
NumLookups == BagCardinality([c \in Lookups |-> calls[c]])

\* The start-up effect: checkUserSession up to cognitoUser.getSession(...).
\* Without a stored user it ends in finally; an exception ends in catch and
\* finally.
CheckUserSession(stored, threw) ==
    /\ lastOp = "AppContent"
    /\ IF threw
       THEN /\ sessionError' = msgSessionExpired
            /\ user' = << >>
            /\ isLoading' = FALSE
            /\ calls' = calls
            /\ lastOp' = "checkUserSession.threw"
       ELSE IF stored = << >>
       THEN /\ isLoading' = FALSE
            /\ lastOp' = "checkUserSession.noUser"
            /\ UNCHANGED <<sessionError, user, calls>>
       ELSE /\ calls' = Issue(Call("getSession", stored[1]))
            /\ lastOp' = "checkUserSession"
            /\ UNCHANGED <<sessionError, user, isLoading>>
    /\ UNCHANGED <<authVars, fetchLog, authenticated, handoffs>>

\* The callback without a finally block: only the valid outcome ends loading.
SessionCallbackNoFinally(c, session) ==
    /\ c \in InFlight /\ c.op = "getSession"
    /\ calls' = Complete(c)
    /\ IF session = "valid"
       THEN /\ user' = <<c.user>>
            /\ isLoading' = FALSE
            /\ lastOp' = "checkUserSession.valid"
            /\ UNCHANGED sessionError
       ELSE /\ user' = << >>
            /\ sessionError' = msgSessionExpired
            /\ isLoading' = isLoading
            /\ lastOp' = IF session = "invalid" THEN "checkUserSession.invalid"
                         ELSE "checkUserSession.error"
    /\ UNCHANGED <<authVars, fetchLog, authenticated, handoffs>>

\* The getSession callback of checkUserSession, then the rest of
\* checkUserSession: catch on a rejection, and finally.
SessionCallback(c, session) ==
    /\ c \in InFlight /\ c.op = "getSession"
    /\ calls' = Complete(c)
    /\ IF session = "valid"
       THEN /\ user' = <<c.user>>
            /\ lastOp' = "checkUserSession.valid"
            /\ UNCHANGED sessionError
       ELSE /\ user' = << >>
            /\ sessionError' = msgSessionExpired
            /\ lastOp' = IF session = "invalid" THEN "checkUserSession.invalid"
                         ELSE "checkUserSession.error"
    /\ isLoading' = FALSE
    /\ UNCHANGED <<authVars, fetchLog, authenticated, handoffs>>

\* The banner's close button.
DismissSessionError ==
    /\ ~isLoading
    /\ sessionError # ""
    /\ sessionError' = ""
    /\ lastOp' = "setSessionError"
    /\ UNCHANGED <<authVars, calls, user, isLoading, fetchLog, authenticated, handoffs>>

\* AppContent renders a new Auth instance.  What the discarded instance left
\* behind can only set state of an unmounted component; no authenticateUser
\* call is among it, since a hand-off unmounted that instance.
MountAuth(pending) ==
    /\ formData' = [f \in Fields |-> Empty]
    /\ uiState' = [currentView |-> "login", isLoading |-> FALSE, resetCodeSent |-> FALSE]
    /\ errors' = NoErrors
    /\ authError' = ""
    /\ successMessage' = ""
    /\ timers' = << >>
    /\ calls' = HostCalls(pending)
    /\ effectCleared' = FALSE

\* handleLogout keeping the Auth instance of the previous sign-in.
handleLogoutKeepsAuth(pending) ==
    /\ user' = << >>
    /\ sessionError' = ""
    /\ calls' = pending
    /\ UNCHANGED authVars

\* handleLogout, and the render that follows: Auth replaces StorytellerApp
\* when the user was not null.
handleLogout(pending) ==
    /\ user' = << >>
    /\ sessionError' = ""
    /\ IF user # << >>
       THEN MountAuth(pending)
       ELSE calls' = pending /\ UNCHANGED authVars

\* The Logout button of StorytellerApp's header.
LogoutClick ==
    /\ ~isLoading /\ user # << >>
    /\ handleLogout(calls)
    /\ lastOp' = "handleLogout"
    /\ UNCHANGED <<isLoading, fetchLog, authenticated, handoffs>>

\* authenticatedFetch up to user.getSession(...), called by StorytellerApp
\* for its user.
AuthenticatedFetch ==
    /\ ~isLoading /\ user # << >>
    /\ Len(fetchLog) + NumLookups < MaxFetches
    /\ calls' = Issue(Call("authenticatedFetch", user[1]))
    /\ lastOp' = "authenticatedFetch"
    /\ UNCHANGED <<authVars, user, hostVars, authenticated, handoffs>>

\* One entry of the request log.
Fetched(c, session, sent, error) ==
    [user |-> c.user, session |-> session,
     token |-> IF sent THEN Token(c.user) ELSE << >>, error |-> error]

\* The callback without its session test.
FetchCallbackNoSessionTest(c, session) ==
    /\ c \in InFlight /\ c.op = "authenticatedFetch"
    /\ fetchLog' = Append(fetchLog, Fetched(c, session, TRUE, ""))
    /\ calls' = Complete(c)
    /\ lastOp' = "authenticatedFetch.fetch"
    /\ UNCHANGED <<authVars, user, isLoading, sessionError, authenticated, handoffs>>

\* The getSession callback of authenticatedFetch: onLogout() and a rejection,
\* or fetch(...) with the session's identity token.
FetchCallback(c, session) ==
    /\ c \in InFlight /\ c.op = "authenticatedFetch"
    /\ IF session = "valid"
       THEN /\ fetchLog' = Append(fetchLog, Fetched(c, session, TRUE, ""))
            /\ calls' = Complete(c)
            /\ lastOp' = "authenticatedFetch.fetch"
            /\ UNCHANGED <<authVars, user, sessionError>>
       ELSE /\ fetchLog' = Append(fetchLog, Fetched(c, session, FALSE, msgSessionInvalid))
            /\ handleLogout(Complete(c))
            /\ lastOp' = "authenticatedFetch.onLogout"
    /\ UNCHANGED <<isLoading, authenticated, handoffs>>

\* handleLogin of the Auth the host shows, for a bounded number of sign-ins.
HostLogin(threw) ==
    /\ Len(authenticated) < MaxLogins
    /\ HandleLogin(threw)

HostNext ==
    \/ \E stored \in StoredUsers : \E threw \in BOOLEAN : CheckUserSession(stored, threw)
    \/ \E c \in InFlight : \E session \in Sessions : SessionCallback(c, session)
    \/ DismissSessionError
    \/ \E name \in {"username", "password"} : \E value \in Values(name) :
          HandleInputChange(name, value)
    \/ \E threw \in BOOLEAN : HostLogin(threw)
    \/ \E c \in InFlight : LoginOnSuccess(c)
    \/ \E c \in InFlight : \E err \in Failures : LoginOnFailure(c, err)
    \/ \E i \in 1..Len(timers) : Handoff(i)
    \/ LogoutClick
    \/ AuthenticatedFetch
    \/ \E c \in InFlight : \E session \in Sessions : FetchCallback(c, session)

HostSpec == HostInit /\ [][HostNext]_vars

\* The start-up effect runs and the session callback is delivered.
HostFairSpec ==
    /\ HostSpec
    /\ WF_vars(\E stored \in StoredUsers : \E threw \in BOOLEAN :
                  CheckUserSession(stored, threw))
    /\ WF_vars(\E c \in InFlight : \E session \in Sessions : SessionCallback(c, session))

\* ================================================================= claims
Modes == {"login", "signup", "verify", "resetRequest", "resetConfirm"}
SubmitOps == {"authenticateUser", "signUp", "confirmRegistration",
              "forgotPassword", "confirmPassword"}
PasswordFields == {"password", "confirmPassword", "newPassword"}

\* A submit handler runs.
SubmitStep ==
    \E threw \in BOOLEAN :
        \/ HandleLogin(threw)
        \/ HandleSignup(threw)
        \/ HandleVerification(threw)
        \/ HandleForgotPasswordRequest(threw)
        \/ HandleResetPasswordSubmit(threw)

\* The result of a call or timer that mode m issued is applied.
CompletionOf(m) ==
    CASE m = "login" ->
            \/ \E c \in InFlight : LoginOnSuccess(c)
            \/ \E c \in InFlight : \E err \in Failures : LoginOnFailure(c, err)
            \/ \E i \in 1..Len(timers) : Handoff(i)
      [] m = "signup" ->
            \E c \in InFlight : \E err \in Results : SignupCallback(c, err)
      [] m = "verify" ->
            \/ \E c \in InFlight : \E err \in Results : VerificationCallback(c, err)
            \/ \E c \in InFlight : \E err \in Results : ResendCallback(c, err)
            \/ \E i \in 1..Len(timers) : VerifiedTimeout(i)
      [] m = "resetRequest" ->
            \E c \in InFlight : \E err \in Results : ForgotPasswordCallback(c, err)
      [] m = "resetConfirm" ->
            \/ \E c \in InFlight : \E err \in Results : ResetPasswordCallback(c, err)
            \/ \E i \in 1..Len(timers) : ResetTimeout(i)

\* The rule table of the specification's validator section, per mode.
SpecRules(m, fd) ==
    CASE m = "login" -> Trim(fd.username) # Empty /\ fd.password # Empty
      [] m = "signup" -> /\ validateUsername(fd.username)
                         /\ validateEmail(fd.email)
                         /\ validatePassword(fd.password)
                         /\ fd.password = fd.confirmPassword
      [] m = "verify" -> fd.verificationCode # Empty
      [] m = "resetRequest" -> validateUsername(fd.username)
      [] m = "resetConfirm" -> fd.resetCode # Empty /\ validatePassword(fd.newPassword)

\* C1: when authenticate fails with code UserNotConfirmedException, the
\* mode becomes verify, the identifier draft equals the identifier that was
\* submitted at login, and exactly one resendConfirmationCode call is issued,
\* for that identifier.
C1_UnverifiedLoginFailure ==
    [][\A c \in InFlight : \A err \in Failures :
          (err.code = codeUnconfirmed /\ Mounted /\ LoginOnFailure(c, err))
          => /\ Mode' = "verify"
             /\ formData'.username = c.user
             /\ \E r \in BagToSet(calls') :
                   /\ r.op = "resendConfirmationCode"
                   /\ CallUsername(r) = Trim(formData'.username)
                   /\ calls' = Complete(c) (+) SetToBag({r})]_vars

\* C2: while isLoading is true no step issues a gateway call of a form
\* submit: a second submit is ignored.
C2_NoSubmitWhileLoading ==
    [][(Mounted /\ uiState.isLoading)
          => \A c \in BagToSet(calls') :
                c.op \in SubmitOps => CopiesIn(c, calls') <= CopiesIn(c, calls)]_vars

\* C2 witness: an authenticate call is in flight, the flag is true, and the
\* login form still holds a draft that passes validation.
C2_Witness ==
    /\ Mounted /\ uiState.isLoading /\ uiState.currentView = "login"
    /\ FormValid(validateForm("login", formData))
    /\ \E c \in InFlight : c.op = "authenticateUser"

\* C3: no two gateway operations are in flight for the same identifier.
C3_OneCallPerIdentifier ==
    \A c \in InFlight :
        /\ CopiesIn(c, calls) = 1
        /\ \A d \in InFlight : d # c => CallUsername(d) # CallUsername(c)

\* C4: a result (a callback or the timer a callback scheduled) that arrives
\* when the current mode is no longer the mode that issued it changes neither
\* the mode nor the draft.
C4_StaleResultIgnored ==
    [][\A m \in Modes :
          (Mounted /\ Mode # m /\ CompletionOf(m))
          => (Mode' = Mode /\ formData' = formData)]_vars

\* The pending hand-off timers, oldest first, and their handles.
IsHandoff(t) == t.kind = "handoff"
PendingHandoffs == SelectSeq(timers, IsHandoff)
PendingHandles == [i \in 1..Len(PendingHandoffs) |-> PendingHandoffs[i].user]

\* C5: every successful authenticate is handed to the host exactly once with
\* its own handle (it is either already handed off or its hand-off timer is
\* pending, in order), the host is never called otherwise, and while a
\* hand-off is pending no authenticate call is in flight.
C5_HandoffOncePerLogin ==
    /\ authenticated = handoffs \o PendingHandles
    /\ PendingHandoffs # << >> => ~\E c \in InFlight : c.op = "authenticateUser"

\* C5 witness: a login succeeded and its handle reached the host.
C5_Witness ==
    /\ handoffs = <<sAnn>> /\ user = <<sAnn>> /\ authenticated = <<sAnn>>
    /\ lastOp = "onLoginSuccess"

\* C6: in every mode, a submit whose draft fails the mode's rules sets a field
\* error, issues no call, and leaves isLoading false and the mode unchanged.
C6_InvalidSubmitRejected ==
    [][(SubmitStep /\ ~SpecRules(Mode, formData))
          => /\ errors' # NoErrors
             /\ calls' = calls
             /\ ~uiState'.isLoading
             /\ Mode' = Mode]_vars

\* C7: after handleLogin ran on a draft whose password is empty or whose
\* username is empty after trimming, no authenticate call is in flight.
C7_NoAuthenticateOnEmpty ==
    (lastOp = "handleLogin"
        /\ (formData.password = Empty \/ Trim(formData.username) = Empty))
    => ~\E c \in InFlight : c.op = "authenticateUser"

\* C7 witness: handleLogin rejected a draft with a username and no password.
C7_Witness ==
    /\ lastOp = "handleLogin"
    /\ formData.password = Empty /\ formData.username = sAnn
    /\ errors.password = msgPasswordRequired
    /\ calls = EmptyBag

\* C8: authError and successMessage are never both non-empty.
C8_MessagesExclusive == ~(authError # "" /\ successMessage # "")

\* C9: right after switchView, authError, successMessage and every field
\* error are empty.
C9_SwitchClearsStatus ==
    lastOp = "switchView"
    => (authError = "" /\ successMessage = "" /\ errors = NoErrors)

\* C9 witness: switchView ran and its effect discarded a message that was
\* showing in the view left behind.
C9_Witness == lastOp = "switchView" /\ effectCleared

\* C10: every step that changes the mode leaves password, confirmPassword
\* and newPassword empty.
C10_ModeChangeClearsPasswords ==
    [][(Mounted /\ Mode' # Mode)
          => \A f \in PasswordFields : formData'[f] = Empty]_vars

\* C11: once a successful confirmRegistration has returned the form to login,
\* the mode is login, the identifier the verification step re-identified the
\* account with and the password are cleared, and password, confirmPassword,
\* newPassword and verificationCode of the draft are empty.
C11_VerifiedClearsContext ==
    (lastOp = "verified.timeout" /\ Mounted)
    => /\ Mode = "login"
       /\ formData.username = Empty
       /\ \A f \in PasswordFields : formData[f] = Empty
       /\ formData.verificationCode = Empty

\* C12: the state handleLogin's onFailure leaves in verify mode shows the
\* message that the account needs verification.
C12_UnverifiedGuidanceShown ==
    (lastOp = "login.onFailure" /\ Mounted /\ Mode = "verify")
    => msgPleaseVerify \in {authError, successMessage}

\* C13: when signUp succeeds the mode becomes verify and the identifier the
\* verification form holds (the one confirmRegistration will be issued for)
\* is the identifier the signUp call was issued for.
C13_SignupPendingIdentifier ==
    [][\A c \in InFlight :
          (Mounted /\ SignupCallback(c, null))
          => /\ Mode' = "verify"
             /\ Trim(formData'.username) = CallUsername(c)]_vars

\* C14: after handleSignup ran on a draft whose password fails the policy,
\* the password field carries the password-policy error, no signUp call is
\* in flight and isLoading is false, whatever the other fields hold.
C14_WeakPasswordRejected ==
    (lastOp = "handleSignup" /\ ~validatePassword(formData.password))
    => /\ errors.password = msgPasswordPolicy
       /\ ~\E c \in InFlight : c.op = "signUp"
       /\ ~uiState.isLoading

\* C14 witness: handleSignup rejected "Weak1" (too short, no punctuation)
\* although identifier, email and confirmation pass their tests.
C14_Witness ==
    /\ lastOp = "handleSignup"
    /\ formData.username = sAnn /\ formData.email = sMail
    /\ formData.password = sWeak /\ formData.confirmPassword = sWeak
    /\ errors = [NoErrors EXCEPT !.password = msgPasswordPolicy]
    /\ calls = EmptyBag

\* The messages that contain the fragments the specification's classifier
\* looks for ("not confirmed", "already exists").
MentionsNotConfirmed(err) == err.message \in {"User is not confirmed."}
MentionsAlreadyExists(err) == err.message \in {"User already exists"}

\* A resendConfirmationCode call for the identifier of call c is issued.
ResendIssuedFor(c) ==
    \E r \in BagToSet(calls') :
        /\ r.op = "resendConfirmationCode"
        /\ CallUsername(r) = CallUsername(c)
        /\ CopiesIn(r, calls') > CopiesIn(r, calls)

\* C15: when signUp fails with the code of an existing account, the mode
\* becomes verify, a resendConfirmationCode call is issued for the identifier
\* of the signUp call, and a top-level message is shown.
C15_DuplicateSignupMovesToVerify ==
    [][\A c \in InFlight : \A err \in Failures :
          (Mounted /\ err.code = codeExists /\ SignupCallback(c, err))
          => /\ Mode' = "verify"
             /\ ResendIssuedFor(c)
             /\ (authError' # "" \/ successMessage' # "")]_vars

\* C16: a failure without a code is classified by its message: an
\* authenticate failure whose message says "not confirmed" moves the mode to
\* verify and issues a resend, and a signUp failure whose message says
\* "already exists" is handled exactly as the one with the code is.
C16_MessageFallback ==
    [][\A c \in InFlight : \A err \in Failures :
          (Mounted /\ err.code = "")
          => /\ (MentionsNotConfirmed(err) /\ LoginOnFailure(c, err))
                  => (Mode' = "verify" /\ ResendIssuedFor(c))
             /\ (MentionsAlreadyExists(err) /\ SignupCallback(c, err))
                  => SignupCallback(c, [err EXCEPT !.code = codeExists])]_vars

\* A failure the specification's classifier matches to no condition: its code
\* is absent or names none, and its message has neither fragment.
Unknown(err) ==
    /\ err.code \notin {codeUnconfirmed, codeExists, codeNotAuthorized}
    /\ ~MentionsNotConfirmed(err)
    /\ ~MentionsAlreadyExists(err)

\* The failure callback of one of the five submit operations runs.
FailureStep(c, err) ==
    \/ LoginOnFailure(c, err)
    \/ SignupCallback(c, err)
    \/ VerificationCallback(c, err)
    \/ ForgotPasswordCallback(c, err)
    \/ ResetPasswordCallback(c, err)

\* The fixed message each failure callback falls back to.
Fallback(op) ==
    CASE op = "authenticateUser" -> msgLoginFailed
      [] op = "signUp" -> msgSignupFailed
      [] op = "confirmRegistration" -> msgVerifyFailed
      [] op = "forgotPassword" -> msgResetSendFailed
      [] op = "confirmPassword" -> msgResetFailed

\* C17 as stated: an unknown failure of a submit operation leaves the mode
\* unchanged, sets isLoading false and sets authError to the failure's
\* message, verbatim.
C17_RawMessageVerbatim ==
    [][\A c \in InFlight : \A err \in Failures :
          (Mounted /\ Unknown(err) /\ FailureStep(c, err))
          => /\ Mode' = Mode
             /\ ~uiState'.isLoading
             /\ authError' = err.message]_vars

\* C17 amended: an unknown failure of a submit operation leaves the mode
\* unchanged, sets isLoading false and sets authError to the failure's
\* message verbatim when it has one, and to the operation's fixed fallback
\* message when it has none.
C17_UnknownFailureShown ==
    [][\A c \in InFlight : \A err \in Failures :
          (Mounted /\ Unknown(err) /\ FailureStep(c, err))
          => /\ Mode' = Mode
             /\ ~uiState'.isLoading
             /\ authError' = (IF err.message # "" THEN err.message
                              ELSE Fallback(c.op))]_vars

\* C17 witness: confirmPassword failed with an unknown failure and the reset
\* form shows its message.
C17_Witness ==
    /\ lastOp = "confirmPassword.failure" /\ Mounted
    /\ Mode = "resetConfirm" /\ ~uiState.isLoading
    /\ authError = "Internal error."

\* C18: the step that delivers a failure to its callback leaves a non-empty
\* authError showing and issues no call of the operation that failed.
C18_FailureShownNoRetry ==
    [][\A c \in InFlight : \A err \in Failures :
          (Mounted /\ (FailureStep(c, err) \/ ResendCallback(c, err)))
          => /\ authError' # ""
             /\ \A d \in BagToSet(calls') :
                   d.op = c.op => CopiesIn(d, calls') <= CopiesIn(d, calls)]_vars

\* C19: a reset-request submit with a valid identifier issues forgotPassword
\* for it; its success leaves the mode resetConfirm, its failure leaves the
\* mode resetRequest with a non-empty authError, and both leave isLoading
\* false.
C19_ResetRequestOutcome ==
    [][/\ (Mounted /\ SpecRules("resetRequest", formData)
              /\ HandleForgotPasswordRequest(FALSE))
          => calls' = Issue(Call("forgotPassword", formData.username))
       /\ \A c \in InFlight : \A err \in Results :
             (Mounted /\ ForgotPasswordCallback(c, err))
             => /\ ~uiState'.isLoading
                /\ IF err = null THEN Mode' = "resetConfirm"
                   ELSE Mode' = "resetRequest" /\ authError' # ""]_vars

\* C20: the reset form, which shows the identifier read-only, is entered
\* with the identifier the forgotPassword call was issued for; its submit
\* with a code and a valid new password issues confirmPassword for the
\* identifier it holds; a failure leaves the mode resetConfirm with a
\* non-empty authError; the return to login that a success schedules leaves
\* the mode login with resetCode and the password fields empty.
C20_ResetConfirmOutcome ==
    [][/\ \A c \in InFlight :
             (Mounted /\ ForgotPasswordCallback(c, null) /\ Mode' = "resetConfirm")
             => Trim(formData'.username) = CallUsername(c)
       /\ (Mounted /\ SpecRules("resetConfirm", formData)
              /\ HandleResetPasswordSubmit(FALSE))
          => calls' = Issue(Call("confirmPassword", formData.username))
       /\ \A c \in InFlight : \A err \in Failures :
             (Mounted /\ ResetPasswordCallback(c, err))
             => (Mode' = "resetConfirm" /\ authError' # "")
       /\ \A i \in 1..Len(timers) :
             (Mounted /\ ResetTimeout(i))
             => /\ Mode' = "login"
                /\ formData'.resetCode = Empty
                /\ \A f \in PasswordFields : formData'[f] = Empty]_vars

\* C21: after handleForgotPasswordRequest ran on a draft whose identifier
\* fails the identifier-shape rule, the username field carries an error and
\* no forgotPassword call is in flight.
C21_ResetRequestNeedsValidIdentifier ==
    (lastOp = "handleForgotPasswordRequest" /\ ~validateUsername(formData.username))
    => /\ errors.username # ""
       /\ ~\E c \in InFlight : c.op = "forgotPassword"

\* C22: the Resend Code click and the resend callback leave the mode, every
\* draft field and isLoading as they were; the click happens in verify mode.
C22_ResendChangesOnlyStatus ==
    [][/\ ResendClick => Mode = "verify"
       /\ (ResendClick \/ \E c \in InFlight : \E err \in Results : ResendCallback(c, err))
          => /\ Mode' = Mode
             /\ formData' = formData
             /\ uiState'.isLoading = uiState.isLoading]_vars

\* C22 witness: a resend completed while confirmRegistration was in flight,
\* and the form is still in verify mode, loading, with its code typed.
C22_Witness ==
    /\ lastOp = "resend.success" /\ Mounted
    /\ Mode = "verify" /\ uiState.isLoading
    /\ formData.verificationCode = sCode
    /\ \E c \in InFlight : c.op = "confirmRegistration"

\* The views the link buttons lead to from the views in S, in any number
\* of clicks.  Links are the only steps that change the view without a
\* gateway success: a failure callback keeps the view (or, for an
\* unconfirmed login, enters the verification view), and the timers that
\* return to login are scheduled by successes.
RECURSIVE NavClosure(_)
NavClosure(S) ==
    LET T == S \cup UNION {Links(v) : v \in S}
    IN IF T = S THEN S ELSE NavClosure(T)

\* C23: whenever no call is in flight and no timer is pending, the form is
\* in login mode or its links are enabled and lead to the login view.
C23_LoginReachable ==
    (Mounted /\ calls = EmptyBag /\ timers = << >>)
    => \/ Mode = "login"
       \/ Enabled /\ "login" \in NavClosure({uiState.currentView})

\* C26: every step that changes the mode, other than signup to verify and
\* login to verify, leaves the username draft empty.
C26_ModeChangeDiscardsIdentifier ==
    [][(Mounted /\ Mode' # Mode
          /\ ~(Mode \in {"signup", "login"} /\ Mode' = "verify"))
          => formData'.username = Empty]_vars

\* The steps that apply a gateway outcome: the callbacks and the timers the
\* success callbacks schedule.
OutcomeStep ==
    \/ \E c \in InFlight : \E err \in Failures : LoginOnFailure(c, err)
    \/ \E c \in InFlight : \E err \in Results : SignupCallback(c, err)
    \/ \E c \in InFlight : \E err \in Results : ForgotPasswordCallback(c, err)
    \/ \E i \in 1..Len(timers) : VerifiedTimeout(i)
    \/ \E i \in 1..Len(timers) : ResetTimeout(i)

\* C28: a gateway outcome that changes the mode leaves no field error and no
\* authError, and no successMessage other than the one the outcome itself
\* announces.
C28_OutcomeClearsStatus ==
    [][(Mounted /\ OutcomeStep /\ Mode' # Mode)
          => /\ errors' = NoErrors
             /\ authError' = ""
             /\ successMessage' \in {"", msgAccountCreated, msgResetSent,
                                     msgPleaseVerify}]_vars

\* C29: the state the signUp success leaves in verify mode shows the
\* account-created success message.
C29_SignupSuccessShown ==
    (lastOp = "signUp.success" /\ Mounted)
    => (Mode = "verify" /\ successMessage = msgAccountCreated)

\* C30: the Resend Code click issues one resendConfirmationCode call, for the
\* trimmed username, when the username is non-empty after trimming;
\* otherwise it issues no call, sets a non-empty authError and leaves the
\* mode unchanged.
C30_ResendNeedsIdentifier ==
    [][ResendClick
          => IF Trim(formData.username) = Empty
             THEN calls' = calls /\ authError' # "" /\ Mode' = Mode
             ELSE \E r \in BagToSet(calls') :
                     /\ r.op = "resendConfirmationCode"
                     /\ CallUsername(r) = Trim(formData.username)
                     /\ calls' = Issue(r)]_vars

\* C30 witness: Resend Code was clicked in a verification form whose
\* username is empty, and the click was refused.
C30_Witness ==
    /\ lastOp = "handleResendCode" /\ Mounted /\ Mode = "verify"
    /\ Trim(formData.username) = Empty
    /\ authError = msgResendNeedsUser
    /\ ~\E c \in InFlight : c.op = "resendConfirmationCode"

\* The four character classes of the password policy.
Classes == {Lower, Upper, Digit, Special}
HasClass(password, class) == \E k \in 1..Len(password) : password[k] \in class

\* The policy as the specification states it.
PolicyHolds(password) ==
    /\ Len(password) >= MinPasswordLen
    /\ \A class \in Classes : HasClass(password, class)

\* C24: handleSignup accepts the password (no error on the field) exactly
\* when it has at least 8 characters and one of each class; and a typed
\* password of at least 8 characters that lacks exactly one class passes
\* validatePassword once a character of that class is appended.
C24_PasswordPolicyExact ==
    /\ lastOp = "handleSignup"
          => ((errors.password = "") <=> PolicyHolds(formData.password))
    /\ \A class \in Classes : \A ch \in class :
          (/\ Len(formData.password) >= MinPasswordLen
           /\ ~HasClass(formData.password, class)
           /\ \A other \in Classes \ {class} : HasClass(formData.password, other))
          => validatePassword(Append(formData.password, ch))

\* The identifier grammars as the specification states them.
LocalPart(email, at) == SubSeq(email, 1, at - 1)
DomainPart(email, at) == SubSeq(email, at + 1, Len(email))
SingleAt(email, at) ==
    /\ email[at] = "@"
    /\ \A k \in 1..Len(email) : email[k] = "@" => k = at

GrammarUsername(username) ==
    /\ Len(username) >= MinUsernameLen
    /\ \A k \in 1..Len(username) : username[k] \in Lower \cup Upper \cup Digit \cup {"_"}

GrammarEmail(email) ==
    \E at \in 1..Len(email) :
        /\ SingleAt(email, at)
        /\ LocalPart(email, at) # Empty
        /\ \E k \in 1..Len(DomainPart(email, at)) : DomainPart(email, at)[k] = "."

\* The email grammar with what the code adds: no whitespace anywhere, and
\* the dot neither first nor last in the domain part.
GrammarEmailStrict(email) ==
    /\ \A k \in 1..Len(email) : email[k] \notin Whitespace
    /\ \E at \in 1..Len(email) :
          /\ SingleAt(email, at)
          /\ LocalPart(email, at) # Empty
          /\ \E k \in 2..(Len(DomainPart(email, at)) - 1) :
                DomainPart(email, at)[k] = "."

\* C25 as stated: handleSignup accepts the username exactly when it has at
\* least 3 characters, all letters, digits or underscores, and the email
\* exactly when it has a single '@', a non-empty local part and a dot in its
\* domain part.
C25_IdentifierGrammarExact ==
    lastOp = "handleSignup"
    => /\ (errors.username = "") <=> GrammarUsername(formData.username)
       /\ (errors.email = "") <=> GrammarEmail(formData.email)

\* C25 amended: the same, the email in addition holding no whitespace and
\* its domain part having a dot that is neither its first nor its last
\* character.
C25_IdentifierGrammarStrict ==
    lastOp = "handleSignup"
    => /\ (errors.username = "") <=> GrammarUsername(formData.username)
       /\ (errors.email = "") <=> GrammarEmailStrict(formData.email)

\* C25 witness: handleSignup rejected the email "a@.a", whose domain part
\* has a dot but starts with it.
C25_Witness ==
    /\ lastOp = "handleSignup"
    /\ formData.email = <<"a", "@", ".", "a">>
    /\ errors.email = msgEmailInvalid

\* The modes whose submit handler calls validateForm, and those handlers.
ValidatedModes == {"login", "signup", "verify", "resetConfirm"}
ValidatingHandlers == {"handleLogin", "handleSignup", "handleVerification",
                       "handleResetPasswordSubmit"}

\* The rule sets as the specification states them: the field f fails its
\* rule in mode m.
RuleFails(m, f, fd) ==
    CASE m = "login" /\ f = "username" -> fd.username = Empty
      [] m = "login" /\ f = "password" -> fd.password = Empty
      [] m = "signup" /\ f = "username" -> ~validateUsername(fd.username)
      [] m = "signup" /\ f = "email" -> ~validateEmail(fd.email)
      [] m = "signup" /\ f = "password" -> ~validatePassword(fd.password)
      [] m = "signup" /\ f = "confirmPassword" -> fd.password # fd.confirmPassword
      [] m = "verify" /\ f = "verificationCode" -> fd.verificationCode = Empty
      [] m = "resetConfirm" /\ f = "resetCode" -> fd.resetCode = Empty
      [] m = "resetConfirm" /\ f = "newPassword" -> ~validatePassword(fd.newPassword)
      [] OTHER -> FALSE

\* The same rule sets, presence of the identifier and of the two codes being
\* tested after trimming.
RuleFailsTrimmed(m, f, fd) ==
    CASE m = "login" /\ f = "username" -> Trim(fd.username) = Empty
      [] m = "verify" /\ f = "verificationCode" -> Trim(fd.verificationCode) = Empty
      [] m = "resetConfirm" /\ f = "resetCode" -> Trim(fd.resetCode) = Empty
      [] OTHER -> RuleFails(m, f, fd)

\* C27 as stated: after a submit handler validated the draft, a field carries
\* an error exactly when it fails its rule of the mode (so no field carries
\* one exactly when all rules hold).
C27_ValidateFormExact ==
    (lastOp \in ValidatingHandlers /\ Mode \in ValidatedModes)
    => \A f \in Fields : (errors[f] # "") <=> RuleFails(Mode, f, formData)

\* C27 amended: the same, with the identifier in login mode and the codes in
\* verify and resetConfirm mode required to be non-empty after trimming.
C27_ValidateFormTrimmed ==
    (lastOp \in ValidatingHandlers /\ Mode \in ValidatedModes)
    => /\ \A f \in Fields : (errors[f] # "") <=> RuleFailsTrimmed(Mode, f, formData)
       /\ (errors = NoErrors)
             <=> (\A f \in Fields : ~RuleFailsTrimmed(Mode, f, formData))

\* C27 witness: handleVerification rejected a code that consists of a space.
C27_Witness ==
    /\ lastOp = "handleVerification" /\ Mode = "verify"
    /\ formData.verificationCode = <<" ">>
    /\ errors.verificationCode = msgCodeRequired
    /\ calls = EmptyBag

\* C31: in every state of a mounted Auth, resetCodeSent is true only while
\* the current view is the password-reset view, so the link from login to
\* the password-reset view always arrives at the request step.
C31_ResetFlagOnlyInResetView ==
    Mounted => (uiState.resetCodeSent => uiState.currentView = "forgotPassword")

\* lastOp after the completion of a submit-issued call other than a
\* successful authenticate, and after a submit handler.
SubmitCompletions ==
    {"login.onFailure", "signUp.failure", "signUp.success",
     "confirmRegistration.failure", "confirmRegistration.success",
     "forgotPassword.failure", "forgotPassword.success",
     "confirmPassword.failure", "confirmPassword.success"}
SubmitHandlers ==
    {"handleLogin", "handleSignup", "handleVerification",
     "handleForgotPasswordRequest", "handleResetPasswordSubmit"}

\* C32: in a mounted Auth isLoading is true only if a submit-issued call is
\* in flight or a login hand-off is pending; after every completion of a
\* submit-issued call other than a successful authenticate, and after a
\* submit handler whose try block threw, isLoading is false.
C32_LoadingOnlyWhilePending ==
    Mounted =>
      /\ uiState.isLoading =>
            \/ \E c \in InFlight : c.op \in SubmitOps
            \/ PendingHandoffs # << >>
      /\ lastOp \in SubmitCompletions => ~uiState.isLoading
      /\ (lastOp \in SubmitHandlers /\ authError = msgUnexpected) => ~uiState.isLoading

\* C32 witness: a login succeeded, nothing is in flight, and the form stays
\* disabled until the pending hand-off.
C32_Witness ==
    /\ Mounted /\ lastOp = "login.onSuccess"
    /\ uiState.isLoading /\ calls = EmptyBag /\ PendingHandoffs # << >>

\* A return-to-login timer of the given kind is pending.
Pending(kind) == \E i \in 1..Len(timers) : timers[i].kind = kind

\* C33: while the return to login scheduled by a successful
\* confirmRegistration (confirmPassword) is pending, no confirmRegistration
\* (confirmPassword) call is in flight, and a submit handler issues none.
C33_NoConfirmWhileReturning ==
    Mounted =>
      /\ Pending("verified") => ~\E c \in InFlight : c.op = "confirmRegistration"
      /\ Pending("reset") => ~\E c \in InFlight : c.op = "confirmPassword"

\* C34: an edit of a draft field changes that field's value, empties that
\* field's error and authError, and leaves the mode, isLoading, the other
\* fields, the other fields' errors and successMessage unchanged.
C34_EditChangesOnlyField ==
    [][lastOp' = "handleInputChange"
          => /\ \E name \in Fields :
                   /\ formData'[name] # formData[name]
                   /\ formData' = [formData EXCEPT ![name] = formData'[name]]
                   /\ errors' = [errors EXCEPT ![name] = ""]
             /\ authError' = ""
             /\ Mode' = Mode /\ uiState'.isLoading = uiState.isLoading
             /\ successMessage' = successMessage]_vars

\* C34 witness: on a rejected signup form the username was edited; its error
\* is gone and the email's error is still shown.
C34_Witness ==
    /\ lastOp = "handleInputChange" /\ Mode = "signup"
    /\ formData.username = sAnn /\ errors.username = ""
    /\ errors.email = msgEmailInvalid /\ errors.password = msgPasswordPolicy

\* lastOp after the start-up check ended without a valid session although a
\* stored user was found or the check threw, and after each of its outcomes.
SessionFailures ==
    {"checkUserSession.error", "checkUserSession.invalid", "checkUserSession.threw"}
SessionOutcomes ==
    SessionFailures \cup {"checkUserSession.noUser", "checkUserSession.valid"}
\* lastOp after a handler of the Auth form that the person at the screen runs.
AuthFormOps == {"handleInputChange", "handleLogin"}

\* C35: the host's user becomes non-null only by a valid session at start-up
\* or by a hand-off from Auth; when the start-up check fails, user is null and
\* sessionError is the session-expired message; the Auth form is operated
\* only when the start-up check has finished and user is null, and is then
\* shown.
C35_UserOnlyFromSessionOrHandoff ==
    [][/\ (user' # << >> /\ user' # user)
            => lastOp' \in {"checkUserSession.valid", "onLoginSuccess"}
       /\ lastOp' \in SessionFailures
            => user' = << >> /\ sessionError' = msgSessionExpired
       /\ (lastOp' \in AuthFormOps /\ lastOp' # lastOp)
            => ~isLoading /\ user = << >>
       /\ Mounted <=> (~isLoading /\ user = << >>)]_vars

\* C35 witness: the stored user's session was found invalid; the Auth form
\* is shown under the session-expired banner.
C35_Witness ==
    /\ lastOp = "checkUserSession.invalid"
    /\ user = << >> /\ sessionError = msgSessionExpired /\ Mounted

\* C36: the start-up check ends with isLoading false: eventually isLoading is
\* false, and it is false after each outcome of the check.
C36_StartupCheckTerminates ==
    /\ <>(~isLoading)
    /\ [](lastOp \in SessionOutcomes => ~isLoading)

\* C36 witness: getSession reported an error and the spinner is gone.
C36_Witness ==
    /\ lastOp = "checkUserSession.error"
    /\ ~isLoading /\ calls = EmptyBag

\* lastOp after handleLogout ran: by the Logout button, or as the onLogout
\* of authenticatedFetch.
LogoutOps == {"handleLogout", "authenticatedFetch.onLogout"}

\* C37 as stated: after handleLogout the user is null, sessionError is
\* empty and the Auth shown is in its initial state.
C37_LogoutShowsInitialAuth ==
    lastOp \in LogoutOps => user = << >> /\ sessionError = "" /\ InitialAuth

\* C37 amended: after handleLogout the user is null and sessionError is
\* empty; when the user was not null before, the Auth shown next is in its
\* initial state.
C37_LogoutOfUserShowsInitialAuth ==
    [][lastOp' \in LogoutOps
          => /\ user' = << >> /\ sessionError' = ""
             /\ user # << >> => (InitialAuth' /\ timers' = << >>)]_vars

\* C37 witness: ann_01 signed in and clicked Logout; a new Auth is shown.
C37_Witness ==
    /\ lastOp = "handleLogout" /\ handoffs = <<sAnn>>
    /\ user = << >> /\ InitialAuth /\ Mounted

\* C38: a request whose session lookup gave an error or an invalid session
\* sent no HTTP request, was rejected with the session-invalid error and ran
\* onLogout; every HTTP request sent carries the token of the valid session
\* found for it.
C38_FetchNeedsValidSession ==
    /\ \A i \in 1..Len(fetchLog) :
          IF fetchLog[i].session = "valid"
          THEN fetchLog[i].token = Token(fetchLog[i].user) /\ fetchLog[i].error = ""
          ELSE fetchLog[i].token = << >> /\ fetchLog[i].error = msgSessionInvalid
    /\ lastOp = "authenticatedFetch.onLogout"
          => /\ user = << >> /\ sessionError = ""
             /\ fetchLog[Len(fetchLog)].session # "valid"
    /\ lastOp = "authenticatedFetch.fetch" => fetchLog[Len(fetchLog)].session = "valid"

\* C38 witness: the lookup of the first request found an invalid session.
C38_Witness ==
    /\ lastOp = "authenticatedFetch.onLogout"
    /\ Len(fetchLog) = 1 /\ fetchLog[1].session = "invalid"
    /\ fetchLog[1].token = << >> /\ user = << >>

====
